---- MODULE Spec2Model ----
(***************************************************************************)
(* Model of the dashboard cache service (CacheService): a                  *)
(* stale-while-revalidate read-through cache over the dashboard_cache      *)
(* table.  Every database statement is one atomic step; the awaits between *)
(* them are the points where other requests, background refreshes and the  *)
(* clock interleave.                                                       *)
(***************************************************************************)
EXTENDS Integers, FiniteSets, Sequences, TLC

VARIABLES store, clock, calls, refresh, warm, env, last, ops, timers,
          mirror, hook

vars == <<store, clock, calls, refresh, warm, env, last, ops, timers,
         mirror, hook>>

(***************************************************************************)
(* Bounds of the model.                                                    *)
(***************************************************************************)
MaxOps == 2
MaxTicks == 2
MaxStudents == 2
MaxWarmFaults == 2
MaxTimers == 2
MaxSweeps == 2
MaxKeyChanges == 1

(***************************************************************************)
(* Program constants.                                                      *)
(***************************************************************************)
DEFAULT_CACHE_DURATION == 15 * 60 * 1000
\* The period of the cleanup timer.
CLEANUP_INTERVAL == 30 * 60 * 1000
PRODUCTION_WARMUP_LIMIT == 20
DEVELOPMENT_WARMUP_LIMIT == 50

(***************************************************************************)
(* Input domains.                                                          *)
(***************************************************************************)
Keys == {"admin", "student_1"}
NoKey == ""
\* JSON payloads: 0 stands for the falsy ones (0, "", false), 1 and 2 for two
\* different dashboards.
Payloads == {0, 1, 2}
\* null: what a read gives when there is no row.
NULL == -1
\* The errors a producer can throw.
ProducerErrors == {-2, -3}
Outcomes == Payloads \cup ProducerErrors
\* customDuration left out.
NoTtl == -1
CustomDurations == {NoTtl, 0, 1}
ClockSteps == {1, DEFAULT_CACHE_DURATION}
TicksUsed == (clock \div DEFAULT_CACHE_DURATION) + (clock % DEFAULT_CACHE_DURATION)

(***************************************************************************)
(* The dashboard_cache table and its statements.                           *)
(***************************************************************************)
Rows(s, k) == {r \in s : r.cacheKey = k}

HasEntry(s, k) == Rows(s, k) # {}

\* .where(eq(cacheKey, k)).limit(1)
FindByKey(s, k) == CHOOSE r \in Rows(s, k) : TRUE

\* JavaScript truthiness of a payload read from the cache.
Truthy(v) == v # NULL /\ v # 0

\* customDuration || DEFAULT_CACHE_DURATION
Duration(ttl) == IF ttl = NoTtl \/ ttl = 0 THEN DEFAULT_CACHE_DURATION ELSE ttl

\* Mutant: the duration is never added to now.
CacheRowWithoutDuration(k, v, now, ttl) ==
    [cacheKey |-> k, cacheData |-> v, lastUpdated |-> now, expiresAt |-> now]

CacheRow(k, v, now, ttl) ==
    [cacheKey |-> k, cacheData |-> v, lastUpdated |-> now,
     expiresAt |-> now + Duration(ttl)]

\* Mutant: a plain INSERT, no ON CONFLICT clause.
UpsertWithoutConflictClause(s, row) == s \cup {row}

\* Mutant: ON CONFLICT DO UPDATE SET cache_data alone.
UpsertPayloadOnly(s, row) ==
    IF HasEntry(s, row.cacheKey)
    THEN {IF r.cacheKey = row.cacheKey
          THEN [r EXCEPT !.cacheData = row.cacheData]
          ELSE r : r \in s}
    ELSE s \cup {row}

\* INSERT ... ON CONFLICT (cache_key) DO UPDATE SET cache_data, last_updated, expires_at
Upsert(s, row) ==
    IF HasEntry(s, row.cacheKey)
    THEN {IF r.cacheKey = row.cacheKey
          THEN [r EXCEPT !.cacheData = row.cacheData,
                         !.lastUpdated = row.lastUpdated,
                         !.expiresAt = row.expiresAt]
          ELSE r : r \in s}
    ELSE s \cup {row}

\* The statement of setCachedData; a storage fault (ok = FALSE) is caught and logged.
WriteEntry(s, row, ok) == IF ok THEN Upsert(s, row) ELSE s

GetCachedData(s, k, ok) ==
    IF ~ok THEN NULL
    ELSE IF ~HasEntry(s, k) THEN NULL
    ELSE FindByKey(s, k).cacheData

\* Mutant: a key without a row counts as not expired.
IsCacheExpiredMissingIsFresh(s, k, now, ok) ==
    IF ~ok THEN TRUE
    ELSE IF ~HasEntry(s, k) THEN FALSE
    ELSE now > FindByKey(s, k).expiresAt

IsCacheExpired(s, k, now, ok) ==
    IF ~ok THEN TRUE
    ELSE IF ~HasEntry(s, k) THEN TRUE
    ELSE now > FindByKey(s, k).expiresAt

\* The body of setCachedData once `now` is taken: build the row, upsert it.
SetCachedData(s, k, v, now, ttl, ok) == WriteEntry(s, CacheRow(k, v, now, ttl), ok)

\* .where(lt(expiresAt, now))
ExpiredRows(s, now) == {r \in s : r.expiresAt < now}

\* Mutant: lte instead of lt, an entry expiring at `now` goes too.
DeleteExpiredOrExpiring(s, now, ok) ==
    IF ok THEN {r \in s : r.expiresAt > now} ELSE s

\* The DELETE statements; a storage fault is caught and logged.
DeleteExpired(s, now, ok) == IF ok THEN s \ ExpiredRows(s, now) ELSE s

\* Mutant: the WHERE clause is missing, every row goes.
DeleteByKeyWithoutWhere(s, k, ok) == IF ok THEN {} ELSE s

DeleteByKey(s, k, ok) == IF ok THEN s \ Rows(s, k) ELSE s

\* Mutant: the full clear spares the entries that have not expired.
DeleteAllExpired(s, ok) == IF ok THEN {r \in s : r.expiresAt >= clock} ELSE s

DeleteAll(s, ok) == IF ok THEN {} ELSE s

\* Mutant: the catch block reports the entries it meant to delete.
DeletedCountDespiteFault(s, now, ok) == Cardinality(ExpiredRows(s, now))

\* result.rowCount || 0, and 0 from the catch block
DeletedCount(s, now, ok) == IF ok THEN Cardinality(ExpiredRows(s, now)) ELSE 0

\* now <= expiresAt for the key's row
FreshEntry(s, k, now) == HasEntry(s, k) /\ ~(now > FindByKey(s, k).expiresAt)

(***************************************************************************)
(* Requests in flight.  A call is a record: its arguments, its position    *)
(* (pc) and the locals it has read so far.  had, hadData and hadFresh      *)
(* remember what the table held for the key when the call read it, readOk  *)
(* whether that read went through, freshAtCheck what the expiry check      *)
(* found, calls how often the call invoked its producer and waited for it. *)
(***************************************************************************)
NoCall ==
    [id |-> 0, op |-> "none", pc |-> "idle", key |-> NoKey, data |-> NULL,
     ttl |-> NoTtl, now |-> 0, cached |-> NULL, had |-> FALSE, hadData |-> NULL,
     hadFresh |-> FALSE, readOk |-> TRUE, freshAtCheck |-> FALSE, calls |-> 0,
     timer |-> 0]

\* What a finished call handed to its caller.
Result(c, out, fromCache, threw, spawned, ok) ==
    [call |-> c, out |-> out, fromCache |-> fromCache, threw |-> threw,
     spawned |-> spawned, ok |-> ok]

NoResult == Result(NoCall, NULL, FALSE, FALSE, FALSE, TRUE)

NewCall(op, pc, k) ==
    [NoCall EXCEPT !.id = ops + 1, !.op = op, !.pc = pc, !.key = k]

(***************************************************************************)
(* The client hook useCachedQuery: the browser's localStorage mirror, the   *)
(* hook's React state and the state of its query.                          *)
(***************************************************************************)
\* gcTime = 10 * 60 * 1000
GC_TIME == 10 * 60 * 1000
HookTicksUsed == (clock \div GC_TIME) + (clock % GC_TIME)

\* undefined: useState() without a value, the data of a query without a result.
Undefined == -6
\* What parseInt gives for a text that starts with no digit.
NaN == -4
\* JSON.parse throws a SyntaxError.
SyntaxError == -5

\* `v &&` in a condition
JsTruthy(v) == v # 0 /\ v # NULL /\ v # Undefined /\ v # NaN

\* The texts of localStorage items are sequences of characters; getItem gives
\* null for a missing item, which the hook only tests for truthiness, as it
\* would the empty text.
NoItem == <<>>
DigitChars == <<"0", "1", "2", "3", "4", "5", "6", "7", "8", "9">>
IsDigit(ch) == \E d \in 1..10 : DigitChars[d] = ch
DigitValue(ch) == (CHOOSE d \in 1..10 : DigitChars[d] = ch) - 1

RECURSIVE NumberToString(_)
\* Date.now().toString(), JSON.stringify of a non-negative number
NumberToString(n) ==
    IF n < 10 THEN <<DigitChars[n + 1]>>
    ELSE Append(NumberToString(n \div 10), DigitChars[(n % 10) + 1])

RECURSIVE LeadingNumber(_, _)
\* The number the leading digits of a text spell, after the digits `acc`.
LeadingNumber(text, acc) ==
    IF text = <<>> \/ ~IsDigit(Head(text)) THEN acc
    ELSE LeadingNumber(Tail(text), 10 * acc + DigitValue(Head(text)))

\* parseInt(text)
ParseInt(text) ==
    IF text = <<>> \/ ~IsDigit(Head(text)) THEN NaN ELSE LeadingNumber(text, 0)

\* JSON.stringify(query.data)
JSONStringify(v) == NumberToString(v)

\* JSON.parse(cached): a text of digits is a number, any other text throws.
JSONParse(text) ==
    IF text # <<>> /\ \A i \in 1..Len(text) : IsDigit(text[i])
    THEN LeadingNumber(text, 0) ELSE SyntaxError

\* The keys of the mirror the hook can be given.
MirrorKeys == {"dashboard_admin", "dashboard_student"}
NoEntry == [cached |-> NoItem, timestamp |-> NoItem]
NoMirror == [k \in MirrorKeys |-> NoEntry]

\* localStorage.removeItem(cacheKey); localStorage.removeItem(cacheTimestampKey)
RemoveItems(m, k) == [m EXCEPT ![k] = NoEntry]

\* The query of useQuery: isSuccess is status = "success", isError is
\* status = "error", isLoading is pending and fetching.
NoQuery == [status |-> "pending", data |-> Undefined, fetching |-> FALSE, at |-> 0]

\* effects tells which effects of the last render have not run yet, ran the
\* dependencies the save effect last ran with, loaded how the load effect
\* ended ("absent", "corrupt", "expired" or "shown"), changes how often the
\* hook was given another key.
IdleHook ==
    [mounted |-> FALSE, cacheKey |-> NoKey, cachedData |-> NULL,
     cacheAge |-> Undefined, isFromCache |-> FALSE, query |-> NoQuery,
     effects |-> "none", ran |-> <<>>, loaded |-> "none", changes |-> 0]

\* [query.data, query.isSuccess, cacheKey, cacheTimestampKey, isFromCache]
SaveDeps(h) == <<h.query.data, h.query.status = "success", h.cacheKey, h.isFromCache>>

\* The effects a render leaves to run: the save effect when one of its
\* dependencies differs from those it last ran with.
Rendered(h) ==
    [h EXCEPT !.effects = IF h.effects \in {"mount", "keyed"} THEN h.effects
                          ELSE IF SaveDeps(h) # h.ran THEN "update" ELSE "none"]

\* dataToShow
DataToShow(h) ==
    IF h.isFromCache /\ JsTruthy(h.cachedData) THEN h.cachedData ELSE h.query.data

\* Mutant: the loading flag of the query, whatever isFromCache.
IsLoadingOfQuery(h) == h.query.status = "pending" /\ h.query.fetching

\* isLoadingToShow
IsLoadingToShow(h) ==
    IF h.isFromCache THEN FALSE ELSE h.query.status = "pending" /\ h.query.fetching

\* Mutant: the load effect keeps an entry whatever its age.
TooOldNever(age, gcTime) == FALSE

\* age > gcTime
TooOld(age, gcTime) == age # NaN /\ age > gcTime

\* Mutant: the catch block of the load effect removes nothing.
LoadFailedKeepingItems(m, k) == m

\* The catch block of the load effect.
LoadFailed(m, k) == RemoveItems(m, k)

\* The load effect: what it leaves of the hook's state and of the mirror.
LoadEffect(h, m, now) ==
    LET e == m[h.cacheKey] IN
    IF e.cached # NoItem /\ e.timestamp # NoItem
    THEN IF JSONParse(e.cached) = SyntaxError
         THEN [h |-> [h EXCEPT !.loaded = "corrupt"], m |-> LoadFailed(m, h.cacheKey)]
         ELSE LET cacheTimestamp == ParseInt(e.timestamp)
                  age == IF cacheTimestamp = NaN THEN NaN ELSE now - cacheTimestamp
              IN IF TooOld(age, GC_TIME)
                 THEN [h |-> [h EXCEPT !.cachedData = NULL, !.cacheAge = age,
                                       !.isFromCache = FALSE, !.loaded = "expired"],
                       m |-> RemoveItems(m, h.cacheKey)]
                 ELSE [h |-> [h EXCEPT !.cachedData = JSONParse(e.cached),
                                       !.cacheAge = age, !.isFromCache = TRUE,
                                       !.loaded = "shown"],
                       m |-> m]
    ELSE [h |-> [h EXCEPT !.loaded = "absent"], m |-> m]

\* query.data && query.isSuccess
ShouldSave(q) == JsTruthy(q.data) /\ q.status = "success"

\* The save effect of the render `r`, run on the state `h` and the mirror `m`;
\* ok1 and ok2 tell whether the two setItem calls go through.
SaveEffect(r, h, m, now, ok1, ok2) ==
    IF ~ShouldSave(r.query) THEN [h |-> h, m |-> m]
    ELSE IF ~ok1 THEN [h |-> h, m |-> m]
    ELSE IF ~ok2
    THEN [h |-> h,
          m |-> [m EXCEPT ![r.cacheKey].cached = JSONStringify(r.query.data)]]
    ELSE [h |-> IF r.isFromCache
                THEN [h EXCEPT !.isFromCache = FALSE, !.cacheAge = Undefined]
                ELSE h,
          m |-> [m EXCEPT ![r.cacheKey] =
                    [cached |-> JSONStringify(r.query.data),
                     timestamp |-> NumberToString(now)]]]

\* The queries a mounting hook can find: nothing yet, with or without a fetch
\* under way, or the result an earlier observer of the query left.
InitialQueries ==
    {[NoQuery EXCEPT !.fetching = f] : f \in BOOLEAN}
      \cup {[status |-> "success", data |-> v, fetching |-> f, at |-> 0] :
               v \in {1, 2}, f \in BOOLEAN}

\* The first render of the hook.
Mount(k, q) ==
    /\ ~hook.mounted
    /\ hook' = [IdleHook EXCEPT !.mounted = TRUE, !.cacheKey = k, !.query = q,
                                !.effects = "mount"]
    /\ UNCHANGED <<store, clock, calls, refresh, warm, env, last, ops, timers, mirror>>

\* Mutant: a render with another key starts from the initial state.
ChangeKeyResetting(k, q, same) ==
    /\ hook.mounted /\ hook.effects = "none"
    /\ k # hook.cacheKey /\ hook.changes < MaxKeyChanges
    /\ hook' = [IdleHook EXCEPT !.mounted = TRUE, !.cacheKey = k,
                                !.query = IF same THEN hook.query ELSE q,
                                !.effects = "keyed", !.ran = hook.ran,
                                !.changes = hook.changes + 1]
    /\ UNCHANGED <<store, clock, calls, refresh, warm, env, last, ops, timers, mirror>>

\* A render with another cacheKey: the state of the hook stays, the query is
\* the one of the new key, or the same one when only localStorageKey changed.
ChangeKey(k, q, same) ==
    /\ hook.mounted /\ hook.effects = "none"
    /\ k # hook.cacheKey /\ hook.changes < MaxKeyChanges
    /\ hook' = [hook EXCEPT !.cacheKey = k,
                            !.query = IF same THEN hook.query ELSE q,
                            !.effects = "keyed", !.changes = @ + 1]
    /\ UNCHANGED <<store, clock, calls, refresh, warm, env, last, ops, timers, mirror>>

\* The effects of the last render run: the load effect after the first render
\* and after a render with another key, then the save effect, both with the
\* values of that render.
RunEffects(ok1, ok2) ==
    /\ hook.effects # "none"
    /\ LET l == IF hook.effects \in {"mount", "keyed"}
                THEN LoadEffect(hook, mirror, clock)
                ELSE [h |-> hook, m |-> mirror]
           s == SaveEffect(hook, l.h, l.m, clock, ok1, ok2)
       IN /\ mirror' = s.m
          /\ hook' = Rendered([s.h EXCEPT !.effects = "none", !.ran = SaveDeps(hook)])
    /\ UNCHANGED <<store, clock, calls, refresh, warm, env, last, ops, timers>>

\* The fetch of the query resolves with the payload v.
FetchSucceeds(v) ==
    /\ hook.mounted /\ hook.query.fetching /\ hook.effects = "none"
    /\ hook' = Rendered([hook EXCEPT !.query = [status |-> "success", data |-> v,
                                                fetching |-> FALSE, at |-> clock]])
    /\ UNCHANGED <<store, clock, calls, refresh, warm, env, last, ops, timers, mirror>>

\* The fetch of the query fails: the query keeps the data it had.
FetchFails ==
    /\ hook.mounted /\ hook.query.fetching /\ hook.effects = "none"
    /\ hook' = Rendered([hook EXCEPT !.query.status = "error",
                                     !.query.fetching = FALSE])
    /\ UNCHANGED <<store, clock, calls, refresh, warm, env, last, ops, timers, mirror>>

\* Mutant: the refetch drops the result the query holds.
RefetchInBackgroundResetting ==
    /\ hook.mounted /\ ops < MaxOps
    /\ ops' = ops + 1
    /\ hook' = Rendered([hook EXCEPT !.query = [NoQuery EXCEPT !.fetching = TRUE],
                                     !.isFromCache = FALSE])
    /\ UNCHANGED <<store, clock, calls, refresh, warm, env, last, timers, mirror>>

\* refetchInBackground(): query.refetch()
RefetchInBackground ==
    /\ hook.mounted /\ ops < MaxOps
    /\ ops' = ops + 1
    /\ hook' = [hook EXCEPT !.query.fetching = TRUE]
    /\ UNCHANGED <<store, clock, calls, refresh, warm, env, last, timers, mirror>>

\* Date.now() moves on.
HookTick(d) ==
    /\ HookTicksUsed < MaxTicks
    /\ clock' = clock + d
    /\ UNCHANGED <<store, calls, refresh, last, ops, warm, env, timers, mirror, hook>>

\* The tables the service can start from: for every key no row, or the row an
\* earlier setCachedData(k, v, ttl) wrote at time 0.
InitStores(K) ==
    {s \in SUBSET {CacheRow(k, v, 0, ttl) :
                      k \in K, v \in Payloads, ttl \in CustomDurations} :
        \A k \in K : Cardinality(Rows(s, k)) <= 1}

\* listed, selected and outcome remember the last student loop: how many
\* students the list and the slice held and, student by student, how the
\* iteration ended; stopped remembers the producer whose error ended the last
\* warm-up (1 to 4 the fixed dashboards, 5 the student list, 0 none).
IdleWarm ==
    [pc |-> "idle", i |-> 0, n |-> 0, data |-> NULL, now |-> 0, faults |-> 0,
     listed |-> 0, selected |-> 0, outcome |-> <<>>, stopped |-> 0]

\* process.env.NODE_ENV
Environments == {"production", "development"}

InitOn(K, E) ==
    /\ store \in InitStores(K)
    /\ clock = 0
    /\ calls = {}
    /\ refresh = {}
    /\ warm = IdleWarm
    /\ env \in E
    /\ last = NoResult
    /\ ops = 0
    /\ timers = <<>>
    /\ mirror = NoMirror
    /\ hook = IdleHook

CanStart == ops < MaxOps

(***************************************************************************)
(* setCachedData                                                           *)
(***************************************************************************)
SetCachedDataCall(k, v, ttl) ==
    /\ CanStart
    /\ calls' = calls \cup {[NewCall("setCachedData", "commit", k) EXCEPT
                               !.data = v, !.ttl = ttl, !.now = clock]}
    /\ ops' = ops + 1
    /\ UNCHANGED <<store, clock, refresh, last, warm, env, timers, mirror, hook>>

SetCachedDataCommit(c, ok) ==
    /\ c \in calls /\ c.op = "setCachedData" /\ c.pc = "commit"
    /\ store' = SetCachedData(store, c.key, c.data, c.now, c.ttl, ok)
    /\ calls' = calls \ {c}
    /\ last' = Result(c, NULL, FALSE, FALSE, FALSE, ok)
    /\ UNCHANGED <<clock, refresh, ops, warm, env, timers, mirror, hook>>

(***************************************************************************)
(* getCachedData, isCacheExpired: one statement each.                      *)
(***************************************************************************)
\* Mutant: the read evicts the entry it finds expired.
GetCachedDataCallEvictingExpired(k, ok) ==
    /\ CanStart
    /\ ops' = ops + 1
    /\ last' = Result([NoCall EXCEPT !.id = ops + 1, !.op = "getCachedData", !.key = k,
                                     !.had = HasEntry(store, k)],
                      GetCachedData(store, k, ok), FALSE, FALSE, FALSE, ok)
    /\ store' = {r \in store : r.cacheKey = k => r.expiresAt >= clock}
    /\ UNCHANGED <<clock, calls, refresh, warm, env, timers, mirror, hook>>

GetCachedDataCall(k, ok) ==
    /\ CanStart
    /\ ops' = ops + 1
    /\ last' = Result([NoCall EXCEPT !.id = ops + 1, !.op = "getCachedData", !.key = k,
                                     !.had = HasEntry(store, k)],
                      GetCachedData(store, k, ok), FALSE, FALSE, FALSE, ok)
    /\ UNCHANGED <<store, clock, calls, refresh, warm, env, timers, mirror, hook>>

IsCacheExpiredCall(k, ok) ==
    /\ CanStart
    /\ ops' = ops + 1
    /\ last' = Result([NoCall EXCEPT !.id = ops + 1, !.op = "isCacheExpired", !.key = k,
                                     !.had = HasEntry(store, k), !.now = clock],
                      IsCacheExpired(store, k, clock, ok), FALSE, FALSE, FALSE, ok)
    /\ UNCHANGED <<store, clock, calls, refresh, warm, env, timers, mirror, hook>>

(***************************************************************************)
(* clearExpiredCache, clearCache, clearAllCache                            *)
(***************************************************************************)
\* new Date() is taken when the statement is built, before it runs.
ClearExpiredCacheCall ==
    /\ CanStart
    /\ calls' = calls \cup {[NewCall("clearExpiredCache", "sweep", NoKey) EXCEPT
                               !.now = clock]}
    /\ ops' = ops + 1
    /\ UNCHANGED <<store, clock, refresh, last, warm, env, timers, mirror, hook>>

\* Mutant: a sweep that fails inside a timer's callback takes the timer down.
ClearExpiredCacheRunStoppingTimer(c, ok) ==
    /\ c \in calls /\ c.op = "clearExpiredCache" /\ c.pc = "sweep"
    /\ store' = DeleteExpired(store, c.now, ok)
    /\ calls' = calls \ {c}
    /\ last' = Result(c, DeletedCount(store, c.now, ok), FALSE, FALSE, FALSE, ok)
    /\ timers' = IF ~ok /\ c.timer # 0
                 THEN [timers EXCEPT ![c.timer] = [due |-> 0 - 1, fired |-> @.fired]]
                 ELSE timers
    /\ UNCHANGED <<clock, refresh, ops, warm, env, mirror, hook>>

ClearExpiredCacheRun(c, ok) ==
    /\ c \in calls /\ c.op = "clearExpiredCache" /\ c.pc = "sweep"
    /\ store' = DeleteExpired(store, c.now, ok)
    /\ calls' = calls \ {c}
    /\ last' = Result(c, DeletedCount(store, c.now, ok), FALSE, FALSE, FALSE, ok)
    /\ UNCHANGED <<clock, refresh, ops, warm, env, timers, mirror, hook>>

ClearCache(k, ok) ==
    /\ CanStart
    /\ store' = DeleteByKey(store, k, ok)
    /\ last' = Result([NewCall("clearCache", "idle", k) EXCEPT
                          !.had = HasEntry(store, k)],
                      NULL, FALSE, FALSE, FALSE, ok)
    /\ ops' = ops + 1
    /\ UNCHANGED <<clock, calls, refresh, warm, env, timers, mirror, hook>>

ClearAllCache(ok) ==
    /\ CanStart
    /\ store' = DeleteAll(store, ok)
    /\ last' = Result([NewCall("clearAllCache", "idle", NoKey) EXCEPT
                          !.had = store # {},
                          !.hadFresh = \E r \in store : r.expiresAt >= clock],
                      NULL, FALSE, FALSE, FALSE, ok)
    /\ ops' = ops + 1
    /\ UNCHANGED <<clock, calls, refresh, warm, env, timers, mirror, hook>>

(***************************************************************************)
(* getDataWithCache and the background refresh it starts                   *)
(***************************************************************************)
\* const cachedData = await this.getCachedData(cacheKey); if (cachedData) ...
\* A falsy result goes on to the producer, which is invoked at once.
GetDataWithCacheRead(k, ok) ==
    /\ CanStart
    /\ LET cached == GetCachedData(store, k, ok)
           c == [NewCall("getDataWithCache", "read", k) EXCEPT
                    !.cached = cached, !.readOk = ok,
                    !.had = HasEntry(store, k),
                    !.hadData = IF HasEntry(store, k)
                                THEN FindByKey(store, k).cacheData ELSE NULL,
                    !.hadFresh = FreshEntry(store, k, clock)]
       IN calls' = calls \cup
            {IF Truthy(cached) THEN [c EXCEPT !.pc = "expiry"]
                               ELSE [c EXCEPT !.pc = "fetch", !.calls = 1]}
    /\ ops' = ops + 1
    /\ UNCHANGED <<store, clock, refresh, last, warm, env, timers, mirror, hook>>

\* A detached refreshCacheInBackground: its producer is invoked when it is started.
NewRefresh(c) == [by |-> c.id, key |-> c.key, pc |-> "fetch", data |-> NULL, now |-> 0]

\* Mutant: the expiry is the one of the row the payload was read from.
GetDataWithCacheExpiryOfRowRead(c, ok) ==
    /\ c \in calls /\ c.op = "getDataWithCache" /\ c.pc = "expiry"
    /\ LET isExpired == ~ok \/ ~c.hadFresh
           d == [c EXCEPT !.pc = "idle", !.now = clock,
                          !.freshAtCheck = FreshEntry(store, c.key, clock)]
       IN /\ refresh' = IF isExpired THEN refresh \cup {NewRefresh(c)} ELSE refresh
          /\ last' = Result(d, c.cached, TRUE, FALSE, isExpired, ok)
    /\ calls' = calls \ {c}
    /\ UNCHANGED <<store, clock, ops, warm, env, timers, mirror, hook>>

\* Mutant: no refresh is started for a key that has one in flight.
GetDataWithCacheExpiryOncePerKey(c, ok) ==
    /\ c \in calls /\ c.op = "getDataWithCache" /\ c.pc = "expiry"
    /\ LET isExpired == IsCacheExpired(store, c.key, clock, ok)
           d == [c EXCEPT !.pc = "idle", !.now = clock,
                          !.freshAtCheck = FreshEntry(store, c.key, clock)]
       IN /\ refresh' = IF isExpired /\ ~\E r \in refresh : r.key = c.key
                         THEN refresh \cup {NewRefresh(c)} ELSE refresh
          /\ last' = Result(d, c.cached, TRUE, FALSE, isExpired, ok)
    /\ calls' = calls \ {c}
    /\ UNCHANGED <<store, clock, ops, warm, env, timers, mirror, hook>>

\* const isExpired = await this.isCacheExpired(cacheKey); the refresh is not awaited.
GetDataWithCacheExpiry(c, ok) ==
    /\ c \in calls /\ c.op = "getDataWithCache" /\ c.pc = "expiry"
    /\ LET isExpired == IsCacheExpired(store, c.key, clock, ok)
           d == [c EXCEPT !.pc = "idle", !.now = clock,
                          !.freshAtCheck = FreshEntry(store, c.key, clock)]
       IN /\ refresh' = IF isExpired THEN refresh \cup {NewRefresh(c)} ELSE refresh
          /\ last' = Result(d, c.cached, TRUE, FALSE, isExpired, ok)
    /\ calls' = calls \ {c}
    /\ UNCHANGED <<store, clock, ops, warm, env, timers, mirror, hook>>

\* Mutant: a failed producer leaves an empty entry behind before the error is
\* thrown on.
GetDataWithCacheFetchCachesFailure(c, r) ==
    /\ c \in calls /\ c.op = "getDataWithCache" /\ c.pc = "fetch"
    /\ IF r \in ProducerErrors
       THEN /\ calls' = calls \ {c}
            /\ store' = SetCachedData(store, c.key, 0, clock, NoTtl, TRUE)
            /\ last' = Result([c EXCEPT !.pc = "idle", !.data = r],
                              r, FALSE, TRUE, FALSE, TRUE)
       ELSE /\ calls' = (calls \ {c}) \cup
                          {[c EXCEPT !.pc = "write", !.data = r, !.now = clock]}
            /\ store' = store
            /\ last' = last
    /\ UNCHANGED <<clock, refresh, ops, warm, env, timers, mirror, hook>>

\* const freshData = await fetchFreshData(): the producer settles with a payload
\* or throws; on a payload setCachedData starts and takes `now`.
GetDataWithCacheFetch(c, r) ==
    /\ c \in calls /\ c.op = "getDataWithCache" /\ c.pc = "fetch"
    /\ IF r \in ProducerErrors
       THEN /\ calls' = calls \ {c}
            /\ last' = Result([c EXCEPT !.pc = "idle", !.data = r],
                              r, FALSE, TRUE, FALSE, TRUE)
       ELSE /\ calls' = (calls \ {c}) \cup
                          {[c EXCEPT !.pc = "write", !.data = r, !.now = clock]}
            /\ last' = last
    /\ UNCHANGED <<store, clock, refresh, ops, warm, env, timers, mirror, hook>>

\* Mutant: setCachedData without its catch block, the failed write is thrown on.
GetDataWithCacheWriteUncaught(c, ok) ==
    /\ c \in calls /\ c.op = "getDataWithCache" /\ c.pc = "write"
    /\ store' = SetCachedData(store, c.key, c.data, c.now, NoTtl, ok)
    /\ calls' = calls \ {c}
    /\ last' = Result([c EXCEPT !.pc = "idle"], IF ok THEN c.data ELSE NULL,
                      FALSE, ~ok, FALSE, ok)
    /\ UNCHANGED <<clock, refresh, ops, warm, env, timers, mirror, hook>>

GetDataWithCacheWrite(c, ok) ==
    /\ c \in calls /\ c.op = "getDataWithCache" /\ c.pc = "write"
    /\ store' = SetCachedData(store, c.key, c.data, c.now, NoTtl, ok)
    /\ calls' = calls \ {c}
    /\ last' = Result([c EXCEPT !.pc = "idle"], c.data, FALSE, FALSE, FALSE, ok)
    /\ UNCHANGED <<clock, refresh, ops, warm, env, timers, mirror, hook>>

\* Mutant: a refresh whose producer fails drops the stale entry.
RefreshFetchDroppingEntry(r, v) ==
    /\ r \in refresh /\ r.pc = "fetch"
    /\ refresh' = IF v \in ProducerErrors
                  THEN refresh \ {r}
                  ELSE (refresh \ {r}) \cup
                         {[r EXCEPT !.pc = "write", !.data = v, !.now = clock]}
    /\ store' = IF v \in ProducerErrors THEN DeleteByKey(store, r.key, TRUE) ELSE store
    /\ UNCHANGED <<clock, calls, last, ops, warm, env, timers, mirror, hook>>

RefreshFetch(r, v) ==
    /\ r \in refresh /\ r.pc = "fetch"
    /\ refresh' = IF v \in ProducerErrors
                  THEN refresh \ {r}
                  ELSE (refresh \ {r}) \cup
                         {[r EXCEPT !.pc = "write", !.data = v, !.now = clock]}
    /\ UNCHANGED <<store, clock, calls, last, ops, warm, env, timers, mirror, hook>>

\* Mutant: the refresh writes only over an entry that is still there.
RefreshWriteIfPresent(r, ok) ==
    /\ r \in refresh /\ r.pc = "write"
    /\ store' = SetCachedData(store, r.key, r.data, r.now, NoTtl,
                              ok /\ HasEntry(store, r.key))
    /\ refresh' = refresh \ {r}
    /\ last' = Result([NoCall EXCEPT !.id = r.by, !.op = "refresh", !.key = r.key,
                                     !.data = r.data, !.now = r.now],
                      NULL, FALSE, FALSE, FALSE, ok)
    /\ UNCHANGED <<clock, calls, ops, warm, env, timers, mirror, hook>>

RefreshWrite(r, ok) ==
    /\ r \in refresh /\ r.pc = "write"
    /\ store' = SetCachedData(store, r.key, r.data, r.now, NoTtl, ok)
    /\ refresh' = refresh \ {r}
    /\ last' = Result([NoCall EXCEPT !.id = r.by, !.op = "refresh", !.key = r.key,
                                     !.data = r.data, !.now = r.now],
                      NULL, FALSE, FALSE, FALSE, ok)
    /\ UNCHANGED <<clock, calls, ops, warm, env, timers, mirror, hook>>

(***************************************************************************)
(* warmUpCache: the four fixed dashboards, then the first students of the  *)
(* list.  Each producer and each write is awaited in turn.                 *)
(***************************************************************************)
FixedKeys == <<"admin", "university", "batch_2027", "batch_2028">>

\* `student_${student.id}`
StudentKey(id) == "student_" \o ToString(id)

\* isProduction ? this.PRODUCTION_WARMUP_LIMIT : 50
StudentLimit(e) ==
    IF e = "production" THEN PRODUCTION_WARMUP_LIMIT ELSE DEVELOPMENT_WARMUP_LIMIT

\* Mutant: the list is not sliced.
SliceLengthOfWholeList(n, limit) == n

\* allStudents.slice(0, studentLimit).length
SliceLength(n, limit) == IF n < limit THEN n ELSE limit

WarmCall(pc, k) ==
    [NoCall EXCEPT !.op = "warmUpCache", !.pc = pc, !.key = k,
                   !.data = warm.data, !.now = warm.now]

\* The warm-up returns: after the last student, or from the outer catch block.
WarmReturn == Result(WarmCall("done", NoKey), NULL, FALSE, FALSE, FALSE, TRUE)

WarmUpCacheCall ==
    /\ CanStart /\ warm.pc = "idle"
    /\ warm' = [IdleWarm EXCEPT !.pc = "fetch", !.i = 1]
    /\ ops' = ops + 1
    /\ UNCHANGED <<store, clock, calls, refresh, env, last, timers, mirror, hook>>

\* Mutant: a failing producer of a fixed dashboard is skipped and the warm-up
\* goes on with the next key.
WarmFixedFetchSkipping(r) ==
    /\ warm.pc = "fetch"
    /\ IF r \in ProducerErrors
       THEN warm' = IF warm.i < Len(FixedKeys)
                    THEN [warm EXCEPT !.i = warm.i + 1]
                    ELSE [warm EXCEPT !.pc = "list", !.i = 0]
       ELSE warm' = [warm EXCEPT !.pc = "write", !.data = r, !.now = clock]
    /\ last' = last
    /\ UNCHANGED <<store, clock, calls, refresh, env, ops, timers, mirror, hook>>

\* Mutant: warmUpCache without its outer catch block, the producer's error is
\* thrown on to the caller.
WarmFixedFetchUncaught(r) ==
    /\ warm.pc = "fetch"
    /\ IF r \in ProducerErrors
       THEN /\ warm' = IdleWarm
            /\ last' = Result(WarmCall("done", NoKey), r, FALSE, TRUE, FALSE, TRUE)
       ELSE /\ warm' = [warm EXCEPT !.pc = "write", !.data = r, !.now = clock]
            /\ last' = last
    /\ UNCHANGED <<store, clock, calls, refresh, env, ops, timers, mirror, hook>>

\* await storage.getAdminDashboard() and the like: an error ends the warm-up in
\* the outer catch block, a payload starts setCachedData.
WarmFixedFetch(r) ==
    /\ warm.pc = "fetch"
    /\ IF r \in ProducerErrors
       THEN warm' = [IdleWarm EXCEPT !.stopped = warm.i] /\ last' = WarmReturn
       ELSE /\ warm' = [warm EXCEPT !.pc = "write", !.data = r, !.now = clock]
            /\ last' = last
    /\ UNCHANGED <<store, clock, calls, refresh, env, ops, timers, mirror, hook>>

\* At most MaxWarmFaults writes fail and students are skipped in one warm-up.
WarmFault(bad) ==
    IF bad THEN [warm EXCEPT !.faults = warm.faults + 1] ELSE warm

CanFault(bad) == bad => warm.faults < MaxWarmFaults

WarmFixedWrite(ok) ==
    /\ warm.pc = "write" /\ CanFault(~ok)
    /\ store' = SetCachedData(store, FixedKeys[warm.i], warm.data, warm.now, NoTtl, ok)
    /\ warm' = IF warm.i < Len(FixedKeys)
               THEN [WarmFault(~ok) EXCEPT !.pc = "fetch", !.i = warm.i + 1]
               ELSE [WarmFault(~ok) EXCEPT !.pc = "list", !.i = 0]
    /\ last' = Result(WarmCall("write", FixedKeys[warm.i]), NULL, FALSE, FALSE, FALSE, ok)
    /\ UNCHANGED <<clock, calls, refresh, env, ops, timers, mirror, hook>>

\* await storage.getAllStudents(): n students, ids 1..n in list order.
WarmStudentList(n, failed) ==
    /\ warm.pc = "list"
    /\ LET m == SliceLength(n, StudentLimit(env))
       IN IF failed \/ m = 0
          THEN /\ warm' = [IdleWarm EXCEPT
                             !.stopped = IF failed THEN Len(FixedKeys) + 1 ELSE 0]
               /\ last' = WarmReturn
          ELSE /\ warm' = [warm EXCEPT !.pc = "student", !.i = 1, !.n = m,
                                       !.listed = n, !.selected = m]
               /\ last' = last
    /\ UNCHANGED <<store, clock, calls, refresh, env, ops, timers, mirror, hook>>

\* After student i, whose iteration ended as `how`: the next one, or the end of
\* the loop.
WarmNextStudent(bad, how) ==
    IF warm.i < warm.n
    THEN [WarmFault(bad) EXCEPT !.pc = "student", !.i = warm.i + 1,
                                !.outcome = Append(warm.outcome, how)]
    ELSE [IdleWarm EXCEPT !.listed = warm.listed, !.selected = warm.selected,
                          !.outcome = Append(warm.outcome, how)]

\* Mutant: the loop body without its try/catch, a student's failing producer
\* ends the warm-up in the outer catch block.
WarmStudentFetchUncaught(r) ==
    /\ warm.pc = "student" /\ CanFault(r \in ProducerErrors \/ ~Truthy(r))
    /\ IF r \in ProducerErrors
       THEN /\ warm' = [IdleWarm EXCEPT !.listed = warm.listed, !.selected = warm.selected,
                                        !.outcome = Append(warm.outcome, "failed")]
            /\ last' = WarmReturn
       ELSE IF ~Truthy(r)
       THEN /\ warm' = WarmNextStudent(TRUE, "empty")
            /\ last' = IF warm.i < warm.n THEN last ELSE WarmReturn
       ELSE /\ warm' = [warm EXCEPT !.pc = "studentWrite", !.data = r, !.now = clock]
            /\ last' = last
    /\ UNCHANGED <<store, clock, calls, refresh, env, ops, timers, mirror, hook>>

\* await storage.getStudentDashboard(student.id): an error is caught for this
\* student alone, a falsy dashboard is skipped.
WarmStudentFetch(r) ==
    /\ warm.pc = "student" /\ CanFault(r \in ProducerErrors \/ ~Truthy(r))
    /\ IF r \in ProducerErrors \/ ~Truthy(r)
       THEN /\ warm' = WarmNextStudent(TRUE, IF r \in ProducerErrors
                                             THEN "failed" ELSE "empty")
            /\ last' = IF warm.i < warm.n THEN last ELSE WarmReturn
       ELSE /\ warm' = [warm EXCEPT !.pc = "studentWrite", !.data = r, !.now = clock]
            /\ last' = last
    /\ UNCHANGED <<store, clock, calls, refresh, env, ops, timers, mirror, hook>>

WarmStudentWrite(ok) ==
    /\ warm.pc = "studentWrite" /\ CanFault(~ok)
    /\ store' = SetCachedData(store, StudentKey(warm.i), warm.data, warm.now, NoTtl, ok)
    /\ warm' = WarmNextStudent(~ok, IF ok THEN "written" ELSE "unwritten")
    /\ last' = Result(WarmCall(IF warm.i < warm.n THEN "write" ELSE "done",
                               StudentKey(warm.i)),
                      NULL, FALSE, FALSE, FALSE, ok)
    /\ UNCHANGED <<clock, calls, refresh, env, ops, timers, mirror, hook>>

(***************************************************************************)
(* The clock.                                                              *)
(***************************************************************************)
Tick(d) ==
    /\ TicksUsed < MaxTicks
    /\ clock' = clock + d
    /\ UNCHANGED <<store, calls, refresh, last, ops, warm, env, timers, mirror, hook>>

(***************************************************************************)
(* startCacheCleanup and the interval timers it installs.  A timer is its   *)
(* next due time and the number of times it has fired; nothing removes one. *)
(***************************************************************************)
\* setInterval(callback, 30 * 60 * 1000): one more timer, the handle is dropped.
StartCacheCleanup ==
    /\ Len(timers) < MaxTimers
    /\ timers' = Append(timers, [due |-> clock + CLEANUP_INTERVAL, fired |-> 0])
    /\ UNCHANGED <<store, clock, calls, refresh, warm, env, last, ops, mirror, hook>>

\* How often the timers have fired, all together.
FiredSoFar ==
    LET f[n \in 0..Len(timers)] == IF n = 0 THEN 0 ELSE f[n - 1] + timers[n].fired
    IN f[Len(timers)]

\* Mutant: the callback sweeps with the date of the tick before.
TimerSweepWithOldDate(i) ==
    [NoCall EXCEPT !.id = 0 - (10 * i + timers[i].fired + 1),
                   !.op = "clearExpiredCache", !.pc = "sweep",
                   !.now = timers[i].due - CLEANUP_INTERVAL, !.timer = i]

\* The sweep a timer's callback starts; callbacks are numbered below zero.
TimerSweep(i) ==
    [NoCall EXCEPT !.id = 0 - (10 * i + timers[i].fired + 1),
                   !.op = "clearExpiredCache", !.pc = "sweep",
                   !.now = timers[i].due, !.timer = i]

\* Time passes until the earliest timer is due; its callback runs: await
\* this.clearExpiredCache(), which takes new Date() and sends the DELETE.  The
\* timer is due again one interval later.
TimerFire(i) ==
    /\ i \in 1..Len(timers)
    /\ FiredSoFar < MaxSweeps
    /\ timers[i].due >= clock
    /\ \A j \in 1..Len(timers) : timers[j].due >= timers[i].due
    /\ clock' = timers[i].due
    /\ calls' = calls \cup {TimerSweep(i)}
    /\ timers' = [timers EXCEPT ![i] = [due |-> @.due + CLEANUP_INTERVAL,
                                        fired |-> @.fired + 1]]
    /\ UNCHANGED <<store, refresh, warm, env, last, ops, mirror, hook>>

\* Time does not pass a timer that is due.
TimerTick(d) ==
    /\ \A j \in 1..Len(timers) : clock + d <= timers[j].due
    /\ Tick(d)

\* The requests and their steps, with arguments from K (keys), V (payloads) and
\* T (durations), storage statements that go through or fail as F says and
\* producers that settle with one of R.
NextOn(K, V, T, F, R) ==
    \/ \E k \in K, v \in V, ttl \in T : SetCachedDataCall(k, v, ttl)
    \/ \E c \in calls, ok \in F : SetCachedDataCommit(c, ok)
    \/ \E k \in K, ok \in F : GetCachedDataCall(k, ok)
    \/ \E k \in K, ok \in F : IsCacheExpiredCall(k, ok)
    \/ ClearExpiredCacheCall
    \/ \E c \in calls, ok \in F : ClearExpiredCacheRun(c, ok)
    \/ \E k \in K, ok \in F : ClearCache(k, ok)
    \/ \E ok \in F : ClearAllCache(ok)
    \/ \E k \in K, ok \in F : GetDataWithCacheRead(k, ok)
    \/ \E c \in calls, ok \in F : GetDataWithCacheExpiry(c, ok)
    \/ \E c \in calls, r \in R : GetDataWithCacheFetch(c, r)
    \/ \E c \in calls, ok \in F : GetDataWithCacheWrite(c, ok)
    \/ \E r \in refresh, v \in R : RefreshFetch(r, v)
    \/ \E r \in refresh, ok \in F : RefreshWrite(r, ok)

\* The warm-up and its steps: the dashboard producers settle with one of R, the
\* student producers with one of S, the student list has one of the lengths N.
WarmNextFor(F, R, S, N) ==
    \/ WarmUpCacheCall
    \/ \E r \in R : WarmFixedFetch(r)
    \/ \E ok \in F : WarmFixedWrite(ok)
    \/ \E n \in N, failed \in BOOLEAN : WarmStudentList(n, failed)
    \/ \E r \in S : WarmStudentFetch(r)
    \/ \E ok \in F : WarmStudentWrite(ok)

WarmNextOn(F, R) == WarmNextFor(F, R, R, 0..MaxStudents)

\* One dashboard key, every payload and duration, failing statements and
\* producers: the requests against each other.
Init == InitOn({"admin"}, {"development"})

Next ==
    \/ NextOn({"admin"}, Payloads, CustomDurations, BOOLEAN, Outcomes)
    \/ \E d \in ClockSteps : Tick(d)

Spec == Init /\ [][Next]_vars

\* A warm-up against the requests: one truthy payload, the default duration, a
\* clock that jumps past the default duration; the requests' statements go through.
WarmOutcomes == {0, 1, -2}

WarmInit == InitOn({}, Environments)

WarmNext ==
    \/ WarmNextOn(BOOLEAN, WarmOutcomes)
    \/ NextOn({"admin", "student_1"}, {1}, {NoTtl}, {TRUE}, {1})
    \/ Tick(DEFAULT_CACHE_DURATION + 1)

SpecWarm == WarmInit /\ [][WarmNext]_vars

\* Two dashboard keys side by side: one truthy payload, a one-millisecond
\* duration, failing statements and producers.
KeysOutcomes == {1, -2}

KeysInit == InitOn(Keys, {"development"})

KeysNext ==
    \/ NextOn(Keys, {1}, {1}, BOOLEAN, KeysOutcomes)
    \/ \E d \in ClockSteps : Tick(d)

SpecKeys == KeysInit /\ [][KeysNext]_vars

\* The cleanup timers against writes of one key: the default duration and a
\* one-millisecond one, sweeps that go through or fail.
TimerNext ==
    \/ StartCacheCleanup
    \/ \E i \in 1..MaxTimers : TimerFire(i)
    \/ \E c \in calls, ok \in BOOLEAN : ClearExpiredCacheRun(c, ok)
    \/ \E ttl \in {NoTtl, 1} : SetCachedDataCall("admin", 1, ttl)
    \/ \E c \in calls, ok \in BOOLEAN : SetCachedDataCommit(c, ok)
    \/ \E d \in ClockSteps : TimerTick(d)

SpecTimer == Init /\ [][TimerNext]_vars

\* The warm-up at server start, on its own, with student lists shorter than,
\* as long as and longer than the two limits.
StudentCounts ==
    {0, 1, PRODUCTION_WARMUP_LIMIT, PRODUCTION_WARMUP_LIMIT + 1,
     DEVELOPMENT_WARMUP_LIMIT, DEVELOPMENT_WARMUP_LIMIT + 1}

SliceInit ==
    /\ store = {}
    /\ clock = 0
    /\ calls = {}
    /\ refresh = {}
    /\ warm = IdleWarm
    /\ env \in Environments
    /\ last = NoResult
    /\ ops = MaxOps - 1
    /\ timers = <<>>
    /\ mirror = NoMirror
    /\ hook = IdleHook

SliceNext == WarmNextFor(BOOLEAN, KeysOutcomes, WarmOutcomes, StudentCounts)

SpecSlice == SliceInit /\ [][SliceNext]_vars

\* The client hook on its own: the mirror as an earlier mount left it at time
\* 0, or with a payload text that does not parse; falsy, equal and different
\* payloads from the fetch; setItem calls that go through or throw.
MirrorTexts == {JSONStringify(1), <<"{">>}

HookInit ==
    /\ store = {}
    /\ clock = 0
    /\ calls = {}
    /\ refresh = {}
    /\ warm = IdleWarm
    /\ env = "development"
    /\ last = NoResult
    /\ ops = 0
    /\ timers = <<>>
    /\ hook = IdleHook
    /\ mirror \in {m \in [MirrorKeys -> [cached : MirrorTexts \cup {NoItem},
                                         timestamp : {NumberToString(0), NoItem}]] :
                     \A k \in MirrorKeys : m[k].cached = NoItem => m[k].timestamp = NoItem}

HookNext ==
    \/ \E k \in MirrorKeys, q \in InitialQueries : Mount(k, q)
    \/ \E k \in MirrorKeys, q \in InitialQueries, same \in BOOLEAN :
          ChangeKey(k, q, same)
    \/ \E ok1, ok2 \in BOOLEAN : RunEffects(ok1, ok2)
    \/ \E v \in Payloads : FetchSucceeds(v)
    \/ FetchFails
    \/ RefetchInBackground
    \/ \E d \in {1, GC_TIME} : HookTick(d)

SpecHook == HookInit /\ [][HookNext]_vars

(***************************************************************************)
(* Properties.                                                             *)
(***************************************************************************)
\* getDataWithCache calls, in flight or just returned.
GetDataCalls == {c \in calls \cup {last.call} : c.op = "getDataWithCache"}

\* The row the table holds for the key of the operation that settled last.
LastRow == FindByKey(store, last.call.key)

\* C1: whenever the table holds an entry for k (whatever its payload) and the
\* payload read goes through, getDataWithCache(k, producer) returns the stored
\* payload with fromCache = true and the caller never waits on the producer.
C1_EntryIsServedWithoutProducer ==
    /\ \A c \in GetDataCalls : c.had /\ c.readOk => c.calls = 0
    /\ last.call.op = "getDataWithCache" /\ last.call.had /\ last.call.readOk
          => last.fromCache /\ last.out = last.call.hadData

\* C2: getDataWithCache on a present-but-expired key returns the old payload to
\* the caller (fromCache = true), and when the refresh it started has written,
\* the table holds the producer's value, not expired within the default TTL.
C2_ExpiredEntryServedThenRefreshed ==
    /\ \A c \in GetDataCalls : c.had /\ ~c.hadFresh /\ c.readOk => c.calls = 0
    /\ last.call.op = "getDataWithCache" /\ last.call.had /\ ~last.call.hadFresh
          /\ last.call.readOk
          => last.fromCache /\ last.out = last.call.hadData
    /\ last.call.op = "refresh" /\ last.ok
          => /\ GetCachedData(store, last.call.key, TRUE) = last.call.data
             /\ (clock <= last.call.now + DEFAULT_CACHE_DURATION
                   => ~IsCacheExpired(store, last.call.key, clock, TRUE))

\* C3 as stated: a cold getDataWithCache whose producer succeeds invokes the
\* producer exactly once, returns its result with fromCache = false and has
\* stored it under k with the default TTL.
C3_ColdCallStoresResult ==
    last.call.op = "getDataWithCache" /\ ~last.call.had /\ ~last.threw
       => /\ last.call.calls = 1
          /\ last.out = last.call.data /\ ~last.fromCache
          /\ HasEntry(store, last.call.key)
          /\ LastRow = [cacheKey |-> last.call.key, cacheData |-> last.out,
                        lastUpdated |-> last.call.now,
                        expiresAt |-> last.call.now + DEFAULT_CACHE_DURATION]

\* C3 amended: a cold getDataWithCache whose producer succeeds invokes the
\* producer exactly once and returns its result with fromCache = false; it has
\* stored that result under k with the default TTL unless the write hit a
\* storage fault, and then the table is as it was.
C3_ColdCallStoresResultUnlessWriteFails ==
    last.call.op = "getDataWithCache" /\ ~last.call.had /\ ~last.threw
       => /\ last.call.calls = 1
          /\ last.out = last.call.data /\ ~last.fromCache
          /\ last.out \in Payloads
          /\ last.ok =>
               /\ Cardinality(Rows(store, last.call.key)) = 1
               /\ LastRow = [cacheKey |-> last.call.key, cacheData |-> last.out,
                             lastUpdated |-> last.call.now,
                             expiresAt |-> last.call.now + DEFAULT_CACHE_DURATION]

C3_Witness ==
    /\ last.call.op = "getDataWithCache" /\ ~last.call.had /\ ~last.threw
    /\ last.ok /\ last.out = 0
    /\ LastRow.cacheData = 0 /\ LastRow.lastUpdated > 0

\* C4: when getDataWithCache runs on a cold key and the producer fails, the
\* call fails with the producer's error, having invoked the producer once, and
\* the failing step leaves the table as it was: no entry for k is created.
C4_ColdFailureLeavesStore ==
    [][/\ (\E c \in calls' \ calls : c.op = "getDataWithCache" /\ c.pc = "fetch")
            => store' = store
       /\ (/\ last'.call.id # last.call.id
           /\ last'.call.op = "getDataWithCache"
           /\ last'.threw)
            => /\ store' = store
               /\ ~HasEntry(store, last'.call.key) => ~HasEntry(store', last'.call.key)
               /\ last'.out = last'.call.data
               /\ last'.out \in ProducerErrors
               /\ last'.call.calls = 1
               /\ ~last'.fromCache]_vars

C4_Witness ==
    /\ last.call.op = "getDataWithCache" /\ last.threw /\ ~last.call.had
    /\ ~HasEntry(store, last.call.key) /\ last.out \in ProducerErrors

\* C5: getDataWithCache on a key whose entry is present and not expired never
\* invokes the producer, neither while the caller waits nor in the background.
C5_FreshEntryNeverCallsProducer ==
    /\ \A c \in GetDataCalls : c.hadFresh /\ c.readOk => c.calls = 0
    /\ last.call.op = "getDataWithCache" /\ last.call.hadFresh /\ last.call.readOk
          /\ last.call.freshAtCheck /\ last.ok
          => ~last.spawned

\* The ttl the caller of setCachedData asked for: the one supplied, 15 minutes
\* when it is left out.
RequestedTtl(ttl) == IF ttl = NoTtl THEN DEFAULT_CACHE_DURATION ELSE ttl

\* C6: after setCachedData(k, v, ttl) has written and nothing has written or
\* deleted k since, getCachedData(k) returns v and isExpired(k) is false up to
\* and including write time + ttl and true afterwards.
C6_ReadBackUntilTtl ==
    last.call.op = "setCachedData" /\ last.ok
       => /\ GetCachedData(store, last.call.key, TRUE) = last.call.data
          /\ IsCacheExpired(store, last.call.key, clock, TRUE)
               <=> clock > last.call.now + RequestedTtl(last.call.ttl)

\* C7: setCachedData(k, v, ttl) stores lastUpdated = now and expiresAt = now + ttl
\* for every supplied ttl (0 included), now + 15 minutes when ttl is left out.
C7_ExpiresAtIsNowPlusTtl ==
    last.call.op = "setCachedData" /\ last.ok
       => /\ HasEntry(store, last.call.key)
          /\ LastRow.lastUpdated = last.call.now
          /\ LastRow.expiresAt = last.call.now + RequestedTtl(last.call.ttl)

\* C8: for a key with no entry, isExpired(k) is true and getCachedData(k) is
\* absent, whether or not the read goes through.
C8_NoEntryIsExpiredAndAbsent ==
    /\ last.call.op = "isCacheExpired" /\ ~last.call.had => last.out = TRUE
    /\ last.call.op = "getCachedData" /\ ~last.call.had => last.out = NULL
    /\ \A k \in Keys, ok \in BOOLEAN :
          ~HasEntry(store, k) => /\ IsCacheExpired(store, k, clock, ok)
                                 /\ GetCachedData(store, k, ok) = NULL

C8_Witness ==
    /\ last.call.op = "isCacheExpired" /\ ~last.call.had /\ last.ok
    /\ last.out = TRUE /\ ops > 1

\* C9: whatever setCachedData, getDataWithCache, background refreshes,
\* warmUpCache and the clear operations have done, in whatever interleaving, the
\* table holds at most one row per key.
C9_OneEntryPerKey ==
    \A r1, r2 \in store : r1.cacheKey = r2.cacheKey => r1 = r2

\* A key written by the warm-up and again by a request holds one row.
C9_Witness ==
    /\ \E r \in store : r.cacheKey = "student_1"
    /\ \E r \in store : r.cacheKey = "admin"
    /\ warm.pc = "student" /\ warm.i = 2
    /\ last.call.op \in {"setCachedData", "getDataWithCache", "refresh"}
    /\ last.call.key = "admin" /\ last.ok
    /\ Cardinality(store) > 2


\* C10: a setCachedData that commits leaves the entry with the payload,
\* lastUpdated and expiresAt of that one write, whatever other writes of the key
\* are in flight or committed before it: the last write to commit wins whole.
C10_LastCommitWinsWhole ==
    last.call.op = "setCachedData" /\ last.ok
       => /\ Cardinality(Rows(store, last.call.key)) = 1
          /\ LastRow = [cacheKey |-> last.call.key, cacheData |-> last.call.data,
                        lastUpdated |-> last.call.now,
                        expiresAt |-> last.call.now + Duration(last.call.ttl)]

\* Two writes of the key overlap and the one called later has committed first.
C10_Witness ==
    /\ last.call.op = "setCachedData" /\ last.ok
    /\ \E c \in calls : /\ c.op = "setCachedData" /\ c.key = last.call.key
                        /\ c.id < last.call.id /\ c.data # last.call.data
                        /\ c.now # last.call.now
    /\ LastRow.cacheData = last.call.data

\* A request of the given operation settles in this step (every request has
\* its own id).
Settles(op) == last'.call.op = op /\ last'.call.id # last.call.id

\* What a sweep that took its timestamp at `now` is to leave of table s.
KeptBySweep(s, now) == {r \in s : r.expiresAt >= now}

\* C11 as stated: every clearExpiredCache() removes exactly the entries whose
\* expiresAt is strictly before the time the call took, leaves every other entry
\* unchanged and returns the number of entries it removed.
C11_SweepRemovesExpired ==
    [][Settles("clearExpiredCache")
         => /\ store' = KeptBySweep(store, last'.call.now)
            /\ last'.out = Cardinality(store) - Cardinality(store')]_vars

\* C11 amended: a clearExpiredCache() whose DELETE goes through removes exactly
\* the entries whose expiresAt is strictly before the time the call took, leaves
\* every other entry unchanged and returns the number removed; when the DELETE
\* hits a storage fault nothing is removed and 0 is returned.
C11_SweepRemovesExpiredUnlessDeleteFails ==
    [][Settles("clearExpiredCache")
         => /\ last'.ok => store' = KeptBySweep(store, last'.call.now)
            /\ ~last'.ok => store' = store
            /\ last'.out = Cardinality(store) - Cardinality(store')
            /\ ~last'.threw]_vars

\* A sweep has removed an expired entry and kept one that expires exactly at
\* the sweep's timestamp.
C11_Witness ==
    /\ last.call.op = "clearExpiredCache" /\ last.ok /\ last.out = 1
    /\ \E r \in store : r.expiresAt = last.call.now

\* Table s without the entry of key k.
WithoutKey(s, k) == {r \in s : r.cacheKey # k}

\* The call that settled last was a clearCache(k) that went through.
JustCleared(k) == last.call.op = "clearCache" /\ last.call.key = k /\ last.ok

\* C12 as stated: every clearCache(k) removes the entry for k and leaves the
\* entries of all other keys unchanged, raises nothing, changes nothing on a key
\* with no entry, and a second clearCache(k) in a row changes nothing.
C12_ClearCacheRemovesOneKey ==
    [][Settles("clearCache")
         => /\ store' = WithoutKey(store, last'.call.key)
            /\ ~last'.threw
            /\ ~last'.call.had => store' = store
            /\ JustCleared(last'.call.key) => store' = store]_vars

\* C12 amended: a clearCache(k) whose DELETE goes through removes the entry for
\* k and leaves the entries of all other keys unchanged; on a key with no entry
\* it changes nothing, so a second clearCache(k) right after one that went
\* through changes nothing; a DELETE that hits a storage fault changes nothing;
\* no clearCache raises an error.
C12_ClearCacheRemovesOneKeyUnlessDeleteFails ==
    [][Settles("clearCache")
         => /\ last'.ok => store' = WithoutKey(store, last'.call.key)
            /\ ~last'.ok => store' = store
            /\ ~last'.threw
            /\ ~last'.call.had => store' = store
            /\ JustCleared(last'.call.key) => store' = store]_vars

\* clearCache(k) has removed the entry of k and the other key has kept its own.
C12_Witness ==
    /\ last.call.op = "clearCache" /\ last.ok /\ last.call.had
    /\ ~HasEntry(store, last.call.key)
    /\ \E r \in store : r.cacheKey # last.call.key

\* C13: after a clearAllCache() that went through, and until a write commits,
\* the table holds no entry: every key is absent and expired, whether its entry
\* was fresh or stale.
C13_ClearAllLeavesNoEntry ==
    last.call.op = "clearAllCache" /\ last.ok
       => /\ store = {}
          /\ \A k \in Keys : /\ ~HasEntry(store, k)
                              /\ GetCachedData(store, k, TRUE) = NULL
                              /\ IsCacheExpired(store, k, clock, TRUE)

\* clearAllCache() has emptied a table that held an entry not yet expired,
\* with a write still in flight.
C13_Witness ==
    /\ last.call.op = "clearAllCache" /\ last.ok
    /\ last.call.had /\ last.call.hadFresh
    /\ store = {}
    /\ \E c \in calls : c.op = "setCachedData"

\* C14: getCachedData(k) and isExpired(k) leave the table as it is, for every
\* key and every table, expired entries included, called on their own or from
\* getDataWithCache: no entry is deleted, rewritten or has a timestamp touched.
C14_ReadsLeaveStore ==
    [][/\ Settles("getCachedData") => store' = store
       /\ Settles("isCacheExpired") => store' = store
       /\ (\E c \in calls' \ calls : c.op = "getDataWithCache" /\ c.pc \in {"expiry", "fetch"})
            => store' = store
       /\ (Settles("getDataWithCache") /\ last'.fromCache) => store' = store]_vars

\* getCachedData has returned the payload of an entry that had expired, and
\* the entry is still there.
C14_Witness ==
    /\ last.call.op = "getCachedData" /\ last.ok /\ last.call.had
    /\ HasEntry(store, last.call.key)
    /\ LastRow.expiresAt < clock
    /\ last.out = LastRow.cacheData

\* C15: no operation raises a storage fault to its caller; the only failure
\* raised is the producer's failure out of a getDataWithCache on a cold key (a
\* key with no entry, or whose payload read failed and so counts as a miss).
C15_OnlyColdProducerFailureIsRaised ==
    last.threw
       => /\ last.call.op = "getDataWithCache"
          /\ last.out \in ProducerErrors
          /\ ~last.call.had \/ ~last.call.readOk

\* C16: a storage fault degrades the operation to a fixed result and leaves the
\* table unchanged: a failed read makes getCachedData return absent, a failed
\* expiry check makes isExpired return true, a failed sweep makes
\* clearExpiredCache return 0.
C16_FaultsDegradeToFixedResults ==
    [][/\ (Settles("getCachedData") /\ ~last'.ok)
            => last'.out = NULL /\ store' = store
       /\ (Settles("isCacheExpired") /\ ~last'.ok)
            => last'.out = TRUE /\ store' = store
       /\ (Settles("clearExpiredCache") /\ ~last'.ok)
            => last'.out = 0 /\ store' = store]_vars

\* A sweep has failed over an expired entry: it returned 0 and the entry is
\* still there.
C16_Witness ==
    /\ last.call.op = "clearExpiredCache" /\ ~last.ok /\ last.out = 0
    /\ \E r \in store : r.expiresAt < last.call.now

\* C17: when getDataWithCache(k, producer) runs on a cold key, the producer
\* succeeds and the write fails, the call returns the producer's result with
\* fromCache = false and raises nothing, and the failed write leaves the table
\* as it was: the call creates no entry for k.
C17_FailedWriteStillReturnsResult ==
    [][(/\ Settles("getDataWithCache")
        /\ ~last'.call.had /\ last'.call.data \in Payloads /\ ~last'.ok)
          => /\ last'.out = last'.call.data
             /\ ~last'.fromCache /\ ~last'.threw
             /\ last'.call.calls = 1
             /\ store' = store
             /\ ~HasEntry(store, last'.call.key) => ~HasEntry(store', last'.call.key)]_vars

\* A cold call has returned its producer's payload although its write failed,
\* and the key still has no entry.
C17_Witness ==
    /\ last.call.op = "getDataWithCache" /\ ~last.call.had /\ ~last.ok
    /\ ~last.threw /\ ~last.fromCache
    /\ last.out \in Payloads /\ last.out = last.call.data
    /\ ~HasEntry(store, last.call.key)

\* A background refresh ends in this step because its producer failed.
RefreshProducerFails ==
    \E r \in refresh \ refresh' :
       r.pc = "fetch" /\ ~\E w \in refresh' : w.by = r.by

\* A background refresh ends in this step because its write failed.
RefreshWriteFails ==
    /\ \E r \in refresh \ refresh' : r.pc = "write"
    /\ ~last'.ok

\* C18: the getDataWithCache call that starts a background refresh returns the
\* old payload with fromCache = true in the same step, so it has returned
\* before the refresh can fail; a refresh whose producer or write fails raises
\* nothing, touches no call in flight and leaves the table exactly as it was
\* (the entry for k keeps its payload, lastUpdated and expiresAt).
C18_FailedRefreshIsSilent ==
    [][/\ (Settles("getDataWithCache") /\ last'.spawned)
            => /\ last'.fromCache /\ ~last'.threw
               /\ last'.out = last'.call.cached
               /\ \E r \in refresh' \ refresh : r.by = last'.call.id
       /\ \A r \in refresh' : \A c \in calls' : c.id # r.by
       /\ RefreshProducerFails
            => /\ store' = store /\ calls' = calls
               /\ last'.call = last.call /\ last'.threw = last.threw
       /\ RefreshWriteFails
            => /\ store' = store /\ calls' = calls
               /\ last'.call.op = "refresh" /\ ~last'.threw]_vars

\* A background refresh got a new payload from its producer, its write failed
\* and the entry is still the expired one with the old payload.
C18_Witness ==
    /\ last.call.op = "refresh" /\ ~last.ok /\ ~last.threw
    /\ HasEntry(store, last.call.key)
    /\ LastRow.cacheData # last.call.data
    /\ LastRow.expiresAt < last.call.now

\* The student loop of the last warm-up has run to its end.
LoopDone == warm.pc = "idle" /\ warm.selected > 0

\* The row a warm-up write that went through is to leave.
WarmedRow ==
    [cacheKey |-> last.call.key, cacheData |-> last.call.data,
     lastUpdated |-> last.call.now,
     expiresAt |-> last.call.now + DEFAULT_CACHE_DURATION]

\* C19 as stated: when one student's producer has failed, the loop still goes
\* through every selected student, and every other student whose producer did
\* not fail has had its entry student_<id> written.
C19_OtherStudentsAreWritten ==
    (LoopDone /\ \E j \in 1..Len(warm.outcome) : warm.outcome[j] = "failed")
       => /\ Len(warm.outcome) = warm.selected
          /\ \A i \in 1..Len(warm.outcome) :
                warm.outcome[i] # "failed" => warm.outcome[i] = "written"

\* C19 amended: a student's failing producer does not end the loop: it goes
\* through every selected student in turn; a student whose producer returns a
\* dashboard has setCachedData run for student_<id>, which leaves the entry
\* written unless the write hits a storage fault; a student whose producer
\* returns nothing is skipped.
C19_LoopGoesOnAfterFailure ==
    /\ warm.pc \in {"student", "studentWrite"}
          => Len(warm.outcome) = warm.i - 1 /\ warm.i <= warm.selected
    /\ LoopDone
          => /\ Len(warm.outcome) = warm.selected
             /\ \A i \in 1..warm.selected :
                   warm.outcome[i] \in {"failed", "empty", "written", "unwritten"}
    /\ \A i \in 1..MaxStudents :
          (last.call.op = "warmUpCache" /\ last.call.key = StudentKey(i))
             => /\ Truthy(last.call.data)
                /\ last.ok => /\ Cardinality(Rows(store, StudentKey(i))) = 1
                               /\ LastRow = WarmedRow
                /\ i <= Len(warm.outcome)
                      => warm.outcome[i] = IF last.ok THEN "written" ELSE "unwritten"

\* The first student's producer failed and the second student's entry was
\* written all the same.
C19_Witness ==
    /\ LoopDone /\ warm.selected = 2
    /\ warm.outcome = <<"failed", "written">>
    /\ last.call.op = "warmUpCache" /\ last.call.key = "student_2" /\ last.ok
    /\ HasEntry(store, "student_2")

\* The warm-up returns to its caller in this step.
WarmUpEnds == warm.pc # "idle" /\ warm'.pc = "idle"

\* How far a warm-up has come: the fixed dashboards in turn, the student list,
\* the students in turn, the return.
WarmRank(w) ==
    CASE w.pc = "fetch" -> 2 * w.i
      [] w.pc = "write" -> 2 * w.i + 1
      [] w.pc = "list" -> 2 * Len(FixedKeys) + 2
      [] w.pc = "student" -> 2 * Len(FixedKeys) + 2 + 2 * w.i - 1
      [] w.pc = "studentWrite" -> 2 * Len(FixedKeys) + 2 + 2 * w.i
      [] OTHER -> 2 * Len(FixedKeys) + 2 + 2 * MaxStudents + 1

\* C20: warmUpCache never raises an error to its caller, whichever fixed-key
\* producer, student list, student producer or write fails during it, and it
\* always comes to a normal return: a warm-up under way can always take its
\* next step once what it awaits has settled, every step takes it further, and
\* the step that ends it hands the caller a normal return.
C20_WarmUpReturnsNormally ==
    /\ [](warm.pc # "idle" => ENABLED WarmNextOn(BOOLEAN, {1}))
    /\ [][/\ WarmUpEnds => (last'.call.op = "warmUpCache" /\ ~last'.threw)
          /\ (warm' # warm /\ last'.call.op = "warmUpCache") => ~last'.threw
          /\ (warm' # warm /\ warm.pc # "idle")
               => WarmRank(warm') > WarmRank(warm)]_vars

\* A warm-up has come back early after the admin entry, through the outer
\* catch block, without raising anything.
C20_Witness ==
    /\ warm.pc = "idle" /\ warm.selected = 0
    /\ last.call.op = "warmUpCache" /\ last.call.pc = "done" /\ ~last.threw
    /\ HasEntry(store, "admin") /\ ~HasEntry(store, "batch_2028")

\* The entries under student_<id> keys.
StudentRows == {r \in store : \A j \in 1..Len(FixedKeys) : r.cacheKey # FixedKeys[j]}

\* How many students of the last loop ended as `how`.
Ended(how) == Cardinality({i \in 1..Len(warm.outcome) : warm.outcome[i] = how})

\* min(N, cap) for the list of the last loop.
FirstOfList ==
    IF env = "production"
    THEN (IF warm.listed < 20 THEN warm.listed ELSE 20)
    ELSE (IF warm.listed < 50 THEN warm.listed ELSE 50)

\* The student loop is under way or has ended.
InLoop == warm.pc \in {"student", "studentWrite"} \/ LoopDone

\* C21 as stated: the warm-up goes through exactly the first min(N, cap)
\* students of the list in list order, cap = 20 in production and 50 otherwise,
\* holds student entries for those alone, and the number of student entries it
\* has written is min(N, cap) minus the students whose producer failed or
\* returned no data.
C21_FirstStudentsUpToTheCap ==
    /\ InLoop => warm.selected = FirstOfList
    /\ \A r \in StudentRows : \E i \in 1..Len(warm.outcome) : r.cacheKey = StudentKey(i)
    /\ LoopDone
          => Cardinality(StudentRows) = FirstOfList - Ended("failed") - Ended("empty")

\* C21 amended: the same, with the students whose write hit a storage fault
\* taken off the number of entries as well; the entries held are those of the
\* students gone through so far whose write went through.
C21_FirstStudentsUpToTheCapLessFailedWrites ==
    /\ InLoop => warm.selected = FirstOfList
    /\ InLoop => Len(warm.outcome) <= FirstOfList
    /\ {r.cacheKey : r \in StudentRows}
          = {StudentKey(i) : i \in {j \in 1..Len(warm.outcome) : warm.outcome[j] = "written"}}
    /\ LoopDone
          => Cardinality(StudentRows)
               = FirstOfList - Ended("failed") - Ended("empty") - Ended("unwritten")

\* In production a list of 21 students has been cut to its first 20; one
\* producer failed, one returned nothing, 18 entries were written and the 21st
\* student has none.
C21_Witness ==
    /\ LoopDone /\ env = "production"
    /\ warm.listed = 21 /\ warm.selected = 20
    /\ Ended("failed") = 1 /\ Ended("empty") = 1
    /\ Cardinality(StudentRows) = 18
    /\ HasEntry(store, "student_20") /\ ~HasEntry(store, "student_21")

\* The sweep that settled last was started by a timer and failed.
TimerSweepFailed ==
    last.call.op = "clearExpiredCache" /\ last.call.timer # 0 /\ ~last.ok

\* C22: the cleanup timer survives a failed sweep: the failing sweep raises
\* nothing and leaves every timer installed, the timer that started it is due
\* again one interval after that tick, and its next tick can run
\* clearExpiredCache again.
C22_TimerSurvivesFailedSweep ==
    /\ [](TimerSweepFailed
            => /\ ~last.threw /\ last.out = 0
               /\ last.call.timer \in 1..Len(timers)
               /\ timers[last.call.timer].due >= last.call.now + CLEANUP_INTERVAL
               /\ FiredSoFar < MaxSweeps => \E i \in 1..Len(timers) : ENABLED TimerFire(i))
    /\ [][/\ Len(timers') >= Len(timers)
          /\ \A i \in 1..Len(timers) : timers'[i].due >= timers[i].due
          /\ (Settles("clearExpiredCache") /\ last'.call.timer # 0 /\ ~last'.ok)
               => timers' = timers /\ store' = store
          /\ \A c \in calls' \ calls :
               c.timer # 0 => /\ c.op = "clearExpiredCache"
                              /\ timers'[c.timer].due = c.now + CLEANUP_INTERVAL]_vars

\* The first sweep of a timer has failed and nothing else is under way: the
\* timer is still there and its second tick is the next thing to happen.
C22_Witness ==
    /\ TimerSweepFailed /\ calls = {}
    /\ Len(timers) = 1 /\ timers[1].fired = 1
    /\ timers[1].due = last.call.now + CLEANUP_INTERVAL
    /\ ENABLED TimerFire(1)
    /\ \E r \in store : r.expiresAt < last.call.now

\* C23: the cleanup scheduler has a single lifecycle: after any sequence of
\* startCacheCleanup calls at most one recurring cleanup timer is active, and a
\* timer once started is never stopped.
C23_AtMostOneTimer ==
    /\ [](Len(timers) <= 1)
    /\ [][Len(timers') >= Len(timers)]_vars

\* A sweep started by a timer settles in this step, its DELETE having gone
\* through.
TimerSweepDone ==
    Settles("clearExpiredCache") /\ last'.call.timer # 0 /\ last'.ok

\* C24: once startCacheCleanup has installed a timer it ticks every 30
\* minutes; with a working store the sweep of a tick deletes every entry whose
\* expiresAt lies before the tick, so an entry that expires and is not
\* rewritten goes at the first tick after its expiresAt, and the sweep deletes
\* no entry that is not expired at the tick.
C24_SweepAtEveryTick ==
    /\ [](\A i \in 1..Len(timers) :
             /\ timers[i].due >= clock \/ FiredSoFar = MaxSweeps
             /\ timers[i].due <= clock + CLEANUP_INTERVAL)
    /\ [](Len(timers) > 0 /\ FiredSoFar < MaxSweeps
            => \E i \in 1..Len(timers) : ENABLED TimerFire(i))
    /\ [][/\ \A c \in calls' \ calls :
               c.timer # 0 => /\ c.op = "clearExpiredCache"
                              /\ c.now = timers[c.timer].due /\ c.now = clock'
                              /\ timers'[c.timer].due = c.now + CLEANUP_INTERVAL
          /\ TimerSweepDone
               => /\ \A r \in store : r.expiresAt < last'.call.now => r \notin store'
                  /\ \A r \in store : r.expiresAt >= last'.call.now => r \in store'
                  /\ store' \subseteq store]_vars

\* The second tick of a timer installed at time 0 has deleted an entry.
C24_Witness ==
    /\ last.call.op = "clearExpiredCache" /\ last.call.timer # 0 /\ last.ok
    /\ last.call.now = 2 * CLEANUP_INTERVAL
    /\ last.out = 1 /\ store = {}

\* A storage statement of a setCachedData call or of a background refresh
\* fails in this step.
CacheOperationFails ==
    /\ last'.call.id # last.call.id \/ last'.call.op # last.call.op
    /\ last'.call.op \in {"setCachedData", "refresh"}
    /\ ~last'.ok

\* C25: a cache operation whose storage statement fails is tried again by the
\* service itself: after the failed attempt the same call, or the same
\* refresh, is still in flight for a further attempt, without a new request.
C25_FailedOperationIsRetried ==
    [][CacheOperationFails
         => \/ \E c \in calls' : c.id = last'.call.id
            \/ \E r \in refresh' : r.by = last'.call.id /\ r.key = last'.call.key]_vars

\* C26: an entry of the table is refreshed every 15 minutes whether or not a
\* caller reads its key: no entry is older than the default duration unless
\* a write of its key is in flight.
C26_EntriesAreRefreshedEveryFifteenMinutes ==
    \A r \in store :
       \/ clock - r.lastUpdated <= DEFAULT_CACHE_DURATION
       \/ \E c \in calls : c.key = r.cacheKey
       \/ \E x \in refresh : x.key = r.cacheKey

\* The effects of the hook's first render run in this step.
MountEffects == hook.effects = "mount" /\ hook'.effects # "mount"

\* The mirror entry the hook is mounted on holds both items.
HoldsEntry == LET e == mirror[hook.cacheKey] IN e.cached # NoItem /\ e.timestamp # NoItem

\* After the step the mirror holds for the hook's key nothing, or what the save
\* effect of the same render wrote of the live payload.
OldEntryGone ==
    LET e == mirror[hook.cacheKey]
        f == mirror'[hook.cacheKey]
    IN \/ f = NoEntry
       \/ /\ ShouldSave(hook.query)
          /\ f.cached = JSONStringify(hook.query.data)
          /\ f.timestamp \in {NoItem, NumberToString(clock)}

\* C27: when the hook mounts on a mirror entry that parses, with a timestamp of
\* age now - timestamp: for age <= gcTime it shows the mirror payload as data
\* with isFromCache = true and cacheAge = age; for age > gcTime the two items
\* are removed, isFromCache is false and the data shown is the query's.
C27_MountShowsYoungEntryAndDropsOldOne ==
    [][MountEffects /\ HoldsEntry /\ JSONParse(mirror[hook.cacheKey].cached) # SyntaxError
         => LET e == mirror[hook.cacheKey]
                age == clock - ParseInt(e.timestamp)
            IN IF age <= GC_TIME
               THEN /\ hook'.isFromCache
                    /\ DataToShow(hook') = JSONParse(e.cached)
                    /\ hook'.cacheAge = age
               ELSE /\ ~hook'.isFromCache
                    /\ hook'.cachedData = NULL
                    /\ DataToShow(hook') = hook.query.data
                    /\ OldEntryGone]_vars

\* An entry exactly gcTime old is shown.
C27_Witness ==
    /\ hook.loaded = "shown" /\ hook.cacheAge = GC_TIME /\ clock = GC_TIME
    /\ hook.isFromCache /\ DataToShow(hook) = 1

\* C28: once the fetch has succeeded and the hook's effects have run, whatever
\* the payload and whether the result came before or after the mount, the
\* mirror holds the live payload with a timestamp not older than the result,
\* isFromCache is false and the data shown is the live payload.
C28_SuccessfulFetchReplacesMirror ==
    hook.mounted /\ hook.query.status = "success" /\ hook.effects = "none"
       => LET e == mirror[hook.cacheKey]
          IN /\ e.cached = JSONStringify(hook.query.data)
             /\ e.timestamp # NoItem /\ ParseInt(e.timestamp) >= hook.query.at
             /\ ~hook.isFromCache
             /\ DataToShow(hook) = hook.query.data

Refetches == hook.mounted /\ ops' = ops + 1

\* C30: refetchInBackground starts the fetch and changes neither cachedData,
\* isFromCache nor cacheAge, nor the mirror; the data shown stays what it is
\* while the fetch is under way and no effect is left to run.
C30_RefetchKeepsWhatIsShown ==
    [][/\ Refetches
          => /\ hook'.query.fetching
             /\ hook'.cachedData = hook.cachedData
             /\ hook'.isFromCache = hook.isFromCache
             /\ hook'.cacheAge = hook.cacheAge
             /\ DataToShow(hook') = DataToShow(hook)
             /\ mirror' = mirror
       /\ /\ hook.query.fetching /\ hook'.query.fetching /\ hook.effects = "none"
          /\ hook'.cacheKey = hook.cacheKey
          => DataToShow(hook') = DataToShow(hook)]_vars

\* A refetch is under way while the hook shows the result of the fetch before.
C30_Witness ==
    /\ ops > 0 /\ hook.query.fetching /\ hook.query.status = "success"
    /\ hook.effects = "none" /\ DataToShow(hook) = 2

\* The save effect resets isFromCache in this step.
SaveEffectResets == hook.isFromCache /\ ~hook'.isFromCache /\ ShouldSave(hook.query)

\* C31: whenever isFromCache is true the hook reports isLoading = false and
\* shows data that is defined, and the step in which the save effect resets
\* isFromCache ends in a state that is not loading and shows defined data:
\* from mirror data to live data there is no loading state in between.
C31_NoLoadingFlickerFromMirrorToLive ==
    /\ [](hook.isFromCache
            => /\ ~IsLoadingToShow(hook)
               /\ DataToShow(hook) # Undefined /\ DataToShow(hook) # NULL)
    /\ [][SaveEffectResets
            => /\ ~IsLoadingToShow(hook')
               /\ DataToShow(hook') = hook.query.data
               /\ DataToShow(hook') # Undefined /\ DataToShow(hook') # NULL]_vars

\* The hook showed the mirror payload 1 while the query was loading and shows
\* the live payload 2 now.
C31_Witness ==
    /\ hook.loaded = "shown" /\ hook.cachedData = 1 /\ ~hook.isFromCache
    /\ hook.query.status = "success" /\ DataToShow(hook) = 2
    /\ ~IsLoadingToShow(hook)

\* C32: whenever the hook shows data with isFromCache = true and no effect is
\* left to run, the data is the payload the load effect found in the mirror
\* under the hook's current key: a payload loaded for another key is not shown.
C32_ShownMirrorDataBelongsToCurrentKey ==
    hook.isFromCache /\ hook.effects = "none"
       => hook.loaded = "shown" /\ DataToShow(hook) = hook.cachedData

\* The keys of the fixed dashboards before the j-th.
FixedKeysBefore(j) == {FixedKeys[x] : x \in {y \in 1..Len(FixedKeys) : y < j}}

\* A producer's error ends the warm-up in this step.
WarmUpStops == warm.pc \in {"fetch", "list"} /\ warm'.pc = "idle" /\ warm'.stopped # 0

\* C33: a warm-up on an empty table goes through admin, university,
\* batch_2027, batch_2028 and then the selected students, one position after
\* the other, and writes at each position the key of that position; when the
\* producer of a fixed key or of the student list fails, the keys written
\* before stay, no key from the failing one on is written, then or later, and
\* the call returns without an error.
C33_WarmUpWritesInOrderAndStopsAtFailure ==
    [][/\ \A r \in store' \ store :
            \/ warm.pc = "write" /\ r.cacheKey = FixedKeys[warm.i]
            \/ warm.pc = "studentWrite" /\ r.cacheKey = StudentKey(warm.i)
       /\ warm.pc # "idle" /\ warm'.pc # "idle" => WarmRank(warm') > WarmRank(warm)
       /\ warm'.pc = "fetch" /\ warm'.i > 1
            => warm.pc = "write" /\ warm.i = warm'.i - 1
       /\ warm'.pc = "list" => warm.pc = "write" /\ warm.i = Len(FixedKeys)
       /\ warm'.pc = "student" /\ warm'.i > 1
            => warm.pc \in {"student", "studentWrite"} /\ warm.i = warm'.i - 1
       /\ store \subseteq store'
       /\ WarmUpStops
            => /\ store' = store
               /\ {r.cacheKey : r \in store} \subseteq FixedKeysBefore(warm'.stopped)
               /\ last'.call.op = "warmUpCache" /\ last'.call.pc = "done"
               /\ ~last'.threw
       /\ warm.pc = "idle" /\ warm.stopped # 0 => store' = store]_vars

\* The producer of batch_2027 failed after admin and university were written.
C33_Witness ==
    /\ warm.pc = "idle" /\ warm.stopped = 3
    /\ {r.cacheKey : r \in store} = {"admin", "university"}
    /\ last.call.op = "warmUpCache" /\ last.call.pc = "done" /\ ~last.threw

\* C34: a getDataWithCache call whose expiry check finds the key expired
\* starts a refresh of its own, whatever refreshes of the key are in flight,
\* and the producer is invoked for it; every refresh write that commits
\* replaces the entry by its own result, so the entry holds the result of the
\* refresh that committed last.
C34_RefreshesAreNotDeduplicated ==
    [][/\ Settles("getDataWithCache") /\ last'.fromCache
            => /\ ~last'.call.freshAtCheck => last'.spawned
               /\ last'.spawned
                    => /\ refresh \subseteq refresh'
                       /\ \E r \in refresh' \ refresh :
                             /\ r.by = last'.call.id /\ r.key = last'.call.key
                             /\ r.pc = "fetch"
       /\ \A r \in refresh \ refresh' :
            r.pc = "write" /\ last'.ok
               => /\ HasEntry(store', r.key)
                  /\ FindByKey(store', r.key).cacheData = r.data
                  /\ FindByKey(store', r.key).lastUpdated = r.now]_vars

\* Two refreshes of the same key are in flight, each with the result of its
\* own producer call.
C34_Witness ==
    \E r1, r2 \in refresh :
       /\ r1.by # r2.by /\ r1.key = r2.key
       /\ r1.pc = "write" /\ r2.pc = "write"
       /\ r1.data = 1 /\ r2.data = 2

\* The operation that settled last was a clearCache(k) or a clearAllCache()
\* that went through.
ClearedLast(k) ==
    /\ last.ok
    /\ \/ last.call.op = "clearCache" /\ last.call.key = k
       \/ last.call.op = "clearAllCache"

\* C35 as stated: after a clear of k, the first write that brings k back is
\* of an operation that started after the clear, never of a call or a
\* background refresh that was in flight when the clear ran.
C35_ClearedKeyComesBackOnlyByLaterOperation ==
    [][\A k \in Keys :
          ClearedLast(k) /\ ~HasEntry(store, k) /\ HasEntry(store', k)
             => last'.call.id > last.call.id]_vars

\* C35 amended: a clear of k whose DELETE goes through leaves k absent, and k
\* comes back only by a write for k that commits, with the payload of that
\* write; the write of a call or of a background refresh that was in flight
\* when the clear ran does bring the entry back.
C35_ClearedKeyAbsentUntilAWriteCommits ==
    [][/\ \A k \in Keys :
            /\ ClearedLast(k)' /\ last'.call.id # last.call.id
                 => ~HasEntry(store', k)
            /\ ~HasEntry(store, k) /\ HasEntry(store', k)
                 => /\ last'.ok /\ last'.call.key = k
                    /\ last'.call.op \in {"setCachedData", "getDataWithCache",
                                          "refresh", "warmUpCache"}
                    /\ FindByKey(store', k).cacheData = last'.call.data
       /\ \A r \in refresh \ refresh' :
            /\ r.pc = "write" /\ last'.ok
            /\ ClearedLast(r.key) /\ r.by < last.call.id
            => ~HasEntry(store, r.key) /\ HasEntry(store', r.key)]_vars

\* A clear of the key went through while a refresh of it, started by an
\* earlier call, holds its producer's result and has yet to write.
C35_Witness ==
    \E r \in refresh :
       /\ r.pc = "write" /\ r.by < last.call.id
       /\ ClearedLast(r.key) /\ last.call.had /\ ~HasEntry(store, r.key)

\* C36: a getDataWithCache call that found a payload returns that payload with
\* fromCache = true whatever has become of the entry before its expiry check;
\* when the check finds the entry gone it starts a background refresh, and
\* when the check goes through and finds the entry fresh, as after a rewrite,
\* it starts none.
C36_ExpiryIsCheckedOnTheTableAsItIsThen ==
    [][Settles("getDataWithCache") /\ last'.fromCache
         => /\ last'.call.had /\ last'.call.readOk
            /\ last'.out = last'.call.cached /\ last'.out = last'.call.hadData
            /\ ~last'.threw /\ store' = store
            /\ ~HasEntry(store, last'.call.key)
                 => /\ last'.spawned
                    /\ \E r \in refresh' \ refresh :
                          r.by = last'.call.id /\ r.key = last'.call.key
            /\ FreshEntry(store, last'.call.key, clock) /\ last'.ok
                 => ~last'.spawned /\ refresh' = refresh]_vars

\* The call read the payload of a fresh entry, the entry was deleted before
\* the expiry check, and the call has returned that payload and started a
\* refresh.
C36_Witness ==
    /\ last.call.op = "getDataWithCache" /\ last.fromCache /\ last.spawned /\ last.ok
    /\ last.call.hadFresh /\ last.call.now = 0
    /\ ~HasEntry(store, last.call.key)
    /\ last.out = last.call.hadData
    /\ \E r \in refresh : r.by = last.call.id

====
